---- MODULE Spec2Model ----
(***************************************************************************)
(* Model of the developer scripts of wasm-fantasia:                        *)
(*   client/web_size.py              - LEB128 reader, WASM section scanner *)
(*   scripts/remap_slide_animations.py - GLB reader/writer, bone remapper  *)
(* Files are sequences of byte values 0..255; a file cursor is the number  *)
(* of bytes already consumed (f.tell()).                                   *)
(***************************************************************************)
EXTENDS Integers, Sequences, FiniteSets, TLC

VARIABLES
    pc,             \* position of the running script
    n, buf, leb,    \* LEB128 check: number, bytes handed to read_leb128, its result
    data, secs, wf, \* WASM input file, the sections it was built from, well-formedness
    pos, sid, size, payloadStart, sections,   \* wasm_sections: f.tell(), locals, result dict
    D, B, file, foreign, result,              \* GLB codec: document, payload, file bytes, read result
    json_data, doc0, doc1, remapped_count, mappings, passes   \* remap_animations

lebVars   == <<n, buf, leb>>
wasmVars  == <<data, secs, wf, pos, sid, size, payloadStart, sections>>
glbVars   == <<D, B, file, foreign, result>>
remapVars == <<json_data, doc0, doc1, remapped_count, mappings, passes>>
vars      == <<pc, lebVars, wasmVars, glbVars, remapVars>>

(* Values of the variables a script does not use *)
EmptyMap == [k \in {} |-> 0]

NoLeb == [ok |-> FALSE, val |-> 0, pos |-> 0]
NoResult == [status |-> "none", json |-> <<>>, bin |-> <<>>]
NoDoc == [nodes |-> <<>>, animations |-> <<>>, meshes |-> 0]

LebIdle   == n = 0 /\ buf = <<>> /\ leb = NoLeb
WasmIdle  == /\ data = <<>> /\ secs = <<>> /\ wf = FALSE /\ pos = 0 /\ sid = -1
             /\ size = 0 /\ payloadStart = 0 /\ sections = EmptyMap
GlbIdle   == D = <<>> /\ B = <<>> /\ file = <<>> /\ foreign = FALSE /\ result = NoResult
RemapIdle == /\ json_data = NoDoc /\ doc0 = NoDoc /\ doc1 = NoDoc
             /\ remapped_count = 0 /\ mappings = 0 /\ passes = 0

----------------------------------------------------------------------------
(* Bounds of the model *)
MaxN     == 300     \* LEB128 check: every number 0..MaxN, plus the boundary values
MaxSecs  == 2       \* sections in a well-formed WASM input
MaxBody  == 2       \* payload bytes of a section after the name
MaxTail  == 4       \* bytes after the preamble in an arbitrary (malformed) input
MaxDoc   == 2       \* elements of a JSON document
MaxBin   == 5       \* bytes of a binary payload
MaxNodes == 3       \* nodes of a document
MaxAnims == 2       \* animations of a document
MaxChans == 2       \* channels of an animation
MaxPasses == 2      \* runs of the remapper, each on the output of the one before
LongNameLen == 128  \* length of the long custom-section name: its LEB128 prefix takes two bytes

Min(a, b) == IF a < b THEN a ELSE b

RECURSIVE SeqsUpTo(_, _)
SeqsUpTo(S, k) ==
    IF k = 0 THEN {<<>>}
    ELSE LET shorter == SeqsUpTo(S, k - 1)
         IN  shorter \cup {Append(s, x) : s \in {t \in shorter : Len(t) = k - 1}, x \in S}

Fill(byte, k) == [i \in 1..k |-> byte]

----------------------------------------------------------------------------
(* client/web_size.py *)

SECTION_NAMES ==
    [i \in 0..12 |->
        CASE i = 0 -> "Custom"  [] i = 1 -> "Type"     [] i = 2 -> "Import"
          [] i = 3 -> "Function" [] i = 4 -> "Table"   [] i = 5 -> "Memory"
          [] i = 6 -> "Global"   [] i = 7 -> "Export"  [] i = 8 -> "Start"
          [] i = 9 -> "Element"  [] i = 10 -> "Code"   [] i = 11 -> "Data"
          [] i = 12 -> "DataCount"]

(* read_leb128(f) on file bytes d with the cursor at p.  f.read(1) at end  *)
(* of input returns b'' and the [0] raises IndexError: ok = FALSE.         *)
RECURSIVE leb_loop(_, _, _, _)
leb_loop(d, p, val, shift) ==
    IF p >= Len(d)
    THEN [ok |-> FALSE, val |-> val, pos |-> p]
    ELSE LET byte == d[p + 1]
             v    == val + (byte % 128) * (2 ^ shift)   \* val |= (byte & 0x7F) << shift
         IN  IF byte < 128
             THEN [ok |-> TRUE, val |-> v, pos |-> p + 1]
             ELSE leb_loop(d, p + 1, v, shift + 7)

\* the reader with shift += 8
RECURSIVE leb_loop_Shift8(_, _, _, _)
leb_loop_Shift8(d, p, val, shift) ==
    IF p >= Len(d)
    THEN [ok |-> FALSE, val |-> val, pos |-> p]
    ELSE LET byte == d[p + 1]
             v    == val + (byte % 128) * (2 ^ shift)
         IN  IF byte < 128
             THEN [ok |-> TRUE, val |-> v, pos |-> p + 1]
             ELSE leb_loop_Shift8(d, p + 1, v, shift + 8)

read_leb128_Shift8(d, p) == leb_loop_Shift8(d, p, 0, 0)

read_leb128(d, p) == leb_loop(d, p, 0, 0)

(* Standard unsigned LEB128 encoding, the reference the reader is checked  *)
(* against and the encoding of the size fields of the generated inputs.    *)
RECURSIVE leb_encode(_)
leb_encode(v) ==
    IF v < 128 THEN <<v>> ELSE <<128 + (v % 128)>> \o leb_encode(v \div 128)

(* Key of the result dict: SECTION_NAMES.get(sid, f"?({sid})"), and        *)
(* f"Custom({cn})" for id 0; cn is kept as the raw name bytes.             *)
SectionName(s, raw) ==
    IF s = 0 THEN [label |-> "Custom", id |-> 0, cn |-> raw]
    ELSE IF s \in DOMAIN SECTION_NAMES
         THEN [label |-> SECTION_NAMES[s], id |-> s, cn |-> <<>>]
         ELSE [label |-> "?", id |-> s, cn |-> <<>>]

\* sections[name] = size: a repeated name overwrites
Accumulate_Overwrite(m, name, sz) ==
    [k \in DOMAIN m \cup {name} |-> IF k = name THEN sz ELSE m[k]]

(* sections[name] = sections.get(name, 0) + size *)
Accumulate(m, name, sz) ==
    [k \in DOMAIN m \cup {name} |->
        IF k = name THEN (IF name \in DOMAIN m THEN m[name] ELSE 0) + sz
        ELSE m[k]]

RECURSIVE SumValues(_)
SumValues(m) ==
    IF DOMAIN m = {} THEN 0
    ELSE LET k == CHOOSE x \in DOMAIN m : TRUE
         IN  m[k] + SumValues([j \in DOMAIN m \ {k} |-> m[j]])

(* f.read(k) at cursor p: the bytes actually available *)
ReadBytes(d, p, k) == SubSeq(d, p + 1, Min(p + k, Len(d)))

\* the seek that also takes off the id byte and the size byte
CustomSkip_Stuck(sz, rawlen) == sz - rawlen - 3

(* Offset of the relative seek in the Custom branch: size - len(raw) - 1 *)
CustomSkip(sz, rawlen) == sz - rawlen - 1

(* f.read(8): skip the preamble *)
Open ==
    /\ pc = "open"
    /\ pos' = Min(8, Len(data))
    /\ pc' = "scan"
    /\ UNCHANGED <<data, secs, wf, sid, size, payloadStart, sections>>
    /\ UNCHANGED <<lebVars, glbVars, remapVars>>

(* One loop iteration for a section with id # 0 *)
ScanSection ==
    /\ pc = "scan"
    /\ pos < Len(data)
    /\ data[pos + 1] # 0
    /\ LET r == read_leb128(data, pos + 1)
       IN  /\ r.ok
           /\ sid' = data[pos + 1]
           /\ size' = r.val
           /\ payloadStart' = r.pos
           /\ pos' = r.pos + r.val                        \* f.seek(size, 1)
           /\ sections' = Accumulate(sections, SectionName(data[pos + 1], <<>>), r.val)
    /\ UNCHANGED <<pc, data, secs, wf>>
    /\ UNCHANGED <<lebVars, glbVars, remapVars>>

(* One loop iteration for a Custom section (id 0) *)
ScanCustom ==
    /\ pc = "scan"
    /\ pos < Len(data)
    /\ data[pos + 1] = 0
    /\ LET r == read_leb128(data, pos + 1)
       IN  /\ r.ok
           /\ LET r2 == read_leb128(data, r.pos)
              IN  /\ r2.ok
                  /\ LET raw    == ReadBytes(data, r2.pos, r2.val)
                         after  == r2.pos + Len(raw)
                         target == after + CustomSkip(r.val, Len(raw))
                     IN  /\ sid' = 0
                         /\ size' = r.val
                         /\ payloadStart' = r.pos
                         /\ pos' = target
                         /\ sections' = Accumulate(sections, SectionName(0, raw), r.val)
    /\ UNCHANGED <<pc, data, secs, wf>>
    /\ UNCHANGED <<lebVars, glbVars, remapVars>>

(* The input ends inside a varint: read_leb128 raises, the scan aborts *)
ScanFail ==
    /\ pc = "scan"
    /\ pos < Len(data)
    /\ LET r == read_leb128(data, pos + 1)
       IN  \/ ~r.ok
           \/ /\ r.ok
              /\ data[pos + 1] = 0
              /\ LET r2 == read_leb128(data, r.pos)
                 IN  ~r2.ok
    /\ pc' = "error"
    /\ UNCHANGED wasmVars
    /\ UNCHANGED <<lebVars, glbVars, remapVars>>

(* f.read(1) returns b'': the loop ends and the mapping is returned *)
ScanEnd ==
    /\ pc = "scan"
    /\ pos >= Len(data)
    /\ pc' = "done"
    /\ UNCHANGED wasmVars
    /\ UNCHANGED <<lebVars, glbVars, remapVars>>

----------------------------------------------------------------------------
(* scripts/remap_slide_animations.py: GLB reader and writer *)

MAGIC    == <<103, 108, 84, 70>>      \* b'glTF'
JSON_TAG == <<74, 83, 79, 78>>        \* b'JSON'
BIN_TAG  == <<66, 73, 78, 0>>         \* b'BIN\x00'

\* struct.pack('<I', x) and struct.unpack('<I', b)[0]
pack_u32(x) ==
    <<x % 256, (x \div 256) % 256, (x \div 65536) % 256, (x \div 16777216) % 256>>

unpack_u32(b) == b[1] + 256 * b[2] + 65536 * b[3] + 16777216 * b[4]

(* The documents of the model are the JSON objects {"a": [v1, v2, ...]} with *)
(* non-negative integers vi; a document is held as the sequence of the vi.   *)
RECURSIVE Digits(_)
Digits(v) == IF v < 10 THEN <<48 + v>> ELSE Digits(v \div 10) \o <<48 + (v % 10)>>

RECURSIVE JoinElems(_)
JoinElems(vs) ==
    IF vs = <<>> THEN <<>>
    ELSE IF Len(vs) = 1 THEN Digits(vs[1])
    ELSE Digits(vs[1]) \o <<44>> \o JoinElems(Tail(vs))

\* json.dumps(json_data, separators=(',', ':')).encode('utf-8')
json_dumps(doc) == <<123, 34, 97, 34, 58, 91>> \o JoinElems(doc) \o <<93, 125>>

\* json.loads: whitespace is allowed around every token, and nothing else may
\* follow the value
JsonWs == {32, 9, 10, 13}

RECURSIVE SkipWs(_, _)
SkipWs(b, i) == IF i <= Len(b) /\ b[i] \in JsonWs THEN SkipWs(b, i + 1) ELSE i

At(b, i, lit) ==
    /\ i + Len(lit) - 1 <= Len(b)
    /\ SubSeq(b, i, i + Len(lit) - 1) = lit

IsDigit(b, i) == i <= Len(b) /\ b[i] >= 48 /\ b[i] <= 57

RECURSIVE ParseDigits(_, _, _)
ParseDigits(b, i, acc) ==
    IF IsDigit(b, i) THEN ParseDigits(b, i + 1, 10 * acc + (b[i] - 48))
    ELSE [val |-> acc, next |-> i]

\* a JSON number: a lone 0, or a digit 1-9 followed by digits
ParseNumber(b, i) ==
    IF ~IsDigit(b, i) THEN [ok |-> FALSE, val |-> 0, next |-> i]
    ELSE IF b[i] = 48 THEN [ok |-> TRUE, val |-> 0, next |-> i + 1]
    ELSE LET r == ParseDigits(b, i, 0) IN [ok |-> TRUE, val |-> r.val, next |-> r.next]

\* the elements after '[' or ',' up to and including ']'
RECURSIVE ParseElems(_, _, _)
ParseElems(b, i, acc) ==
    LET num == ParseNumber(b, SkipWs(b, i))
        j   == SkipWs(b, num.next)
    IN  IF ~num.ok THEN [ok |-> FALSE, val |-> acc, next |-> i]
        ELSE IF At(b, j, <<44>>) THEN ParseElems(b, j + 1, Append(acc, num.val))
        ELSE IF At(b, j, <<93>>) THEN [ok |-> TRUE, val |-> Append(acc, num.val), next |-> j + 1]
        ELSE [ok |-> FALSE, val |-> acc, next |-> j]

ParseArray(b, i) ==
    IF ~At(b, i, <<91>>) THEN [ok |-> FALSE, val |-> <<>>, next |-> i]
    ELSE LET j == SkipWs(b, i + 1)
         IN  IF At(b, j, <<93>>) THEN [ok |-> TRUE, val |-> <<>>, next |-> j + 1]
             ELSE ParseElems(b, j, <<>>)

json_loads(b) ==
    LET i1 == SkipWs(b, 1)
        i2 == SkipWs(b, i1 + 1)
        i3 == SkipWs(b, i2 + 3)
        i4 == SkipWs(b, i3 + 1)
        arr == ParseArray(b, i4)
        i5 == SkipWs(b, arr.next)
        i6 == SkipWs(b, i5 + 1)
    IN  IF /\ At(b, i1, <<123>>)
           /\ At(b, i2, <<34, 97, 34>>)
           /\ At(b, i3, <<58>>)
           /\ arr.ok
           /\ At(b, i5, <<125>>)
           /\ i6 = Len(b) + 1
        THEN [ok |-> TRUE, val |-> arr.val]
        ELSE [ok |-> FALSE, val |-> <<>>]

\* the JSON chunk padded with zero bytes, as the binary chunk is
RECURSIVE PadJson_Zero(_)
PadJson_Zero(b) == IF Len(b) % 4 # 0 THEN PadJson_Zero(Append(b, 0)) ELSE b

\* while len(json_bytes) % 4 != 0: json_bytes += b' '
RECURSIVE PadJson(_)
PadJson(b) == IF Len(b) % 4 # 0 THEN PadJson(Append(b, 32)) ELSE b

\* while len(binary_chunk) % 4 != 0: binary_chunk += b'\x00'
RECURSIVE PadBin(_)
PadBin(b) == IF Len(b) % 4 # 0 THEN PadBin(Append(b, 0)) ELSE b

\* the total without the header of the BIN chunk
TotalLength_NoBinHeader(jlen, blen) == 12 + 8 + jlen + blen

TotalLength(jlen, blen) == 12 + 8 + jlen + 8 + blen

\* the bytes write_glb puts after the magic and the version
GlbBody(doc, bin) ==
    LET json_bytes   == PadJson(json_dumps(doc))
        binary_chunk == PadBin(bin)
    IN  pack_u32(TotalLength(Len(json_bytes), Len(binary_chunk)))
        \o pack_u32(Len(json_bytes)) \o JSON_TAG \o json_bytes
        \o pack_u32(Len(binary_chunk)) \o BIN_TAG \o binary_chunk

write_glb(doc, bin) == MAGIC \o pack_u32(2) \o GlbBody(doc, bin)

Failed(kind) == [status |-> kind, json |-> <<>>, bin |-> <<>>]

\* read_glb on the file bytes f; struct.unpack of a short read raises
\* struct.error, a short f.read of a payload does not
read_glb(f) ==
    IF ReadBytes(f, 0, 4) # MAGIC THEN Failed("ValueError")
    ELSE IF Len(f) < 16 THEN Failed("struct.error")
    ELSE LET version     == unpack_u32(ReadBytes(f, 4, 4))
             length      == unpack_u32(ReadBytes(f, 8, 4))
             json_length == unpack_u32(ReadBytes(f, 12, 4))
             json_raw    == ReadBytes(f, 20, json_length)
             parsed      == json_loads(json_raw)
             tell        == Min(Len(f), 20) + Len(json_raw)
         IN  IF ~parsed.ok THEN Failed("JSONDecodeError")
             ELSE IF tell < length
                  THEN IF Len(f) < tell + 4 THEN Failed("struct.error")
                       ELSE LET bin_length == unpack_u32(ReadBytes(f, tell, 4))
                            IN  [status |-> "ok", json |-> parsed.val,
                                 bin |-> ReadBytes(f, Min(Len(f), tell + 8), bin_length)]
                  ELSE [status |-> "ok", json |-> parsed.val, bin |-> <<>>]

WriteGlb ==
    /\ pc = "glb_start"
    /\ file' = write_glb(D, B)
    /\ pc' = "glb_written"
    /\ UNCHANGED <<D, B, foreign, result>>
    /\ UNCHANGED <<lebVars, wasmVars, remapVars>>

ReadGlb ==
    /\ pc = "glb_written"
    /\ result' = read_glb(file)
    /\ pc' = IF read_glb(file).status = "ok" THEN "glb_read" ELSE "glb_error"
    /\ UNCHANGED <<D, B, file, foreign>>
    /\ UNCHANGED <<lebVars, wasmVars, remapVars>>

----------------------------------------------------------------------------
(* scripts/remap_slide_animations.py: the bone remapper *)

\* BONE_MAP.items(): v2 bone name -> v1 bone name
BonePairs == {
    <<"pelvis", "DEF-hips">>, <<"spine_01", "DEF-spine001">>,
    <<"spine_02", "DEF-spine002">>, <<"spine_03", "DEF-spine003">>,
    <<"neck_01", "DEF-neck">>, <<"Head", "DEF-head">>,
    <<"clavicle_l", "DEF-shoulderL">>, <<"clavicle_r", "DEF-shoulderR">>,
    <<"upperarm_l", "DEF-upper_armL">>, <<"upperarm_r", "DEF-upper_armR">>,
    <<"lowerarm_l", "DEF-forearmL">>, <<"lowerarm_r", "DEF-forearmR">>,
    <<"hand_l", "DEF-handL">>, <<"hand_r", "DEF-handR">>,
    <<"thigh_l", "DEF-thighL">>, <<"thigh_r", "DEF-thighR">>,
    <<"calf_l", "DEF-shinL">>, <<"calf_r", "DEF-shinR">>,
    <<"foot_l", "DEF-footL">>, <<"foot_r", "DEF-footR">>,
    <<"ball_l", "DEF-toeL">>, <<"ball_r", "DEF-toeR">>,
    <<"thumb_01_l", "DEF-thumb01L">>, <<"thumb_02_l", "DEF-thumb02L">>,
    <<"thumb_03_l", "DEF-thumb03L">>, <<"index_01_l", "DEF-f_index01L">>,
    <<"index_02_l", "DEF-f_index02L">>, <<"index_03_l", "DEF-f_index03L">>,
    <<"middle_01_l", "DEF-f_middle01L">>, <<"middle_02_l", "DEF-f_middle02L">>,
    <<"middle_03_l", "DEF-f_middle03L">>, <<"ring_01_l", "DEF-f_ring01L">>,
    <<"ring_02_l", "DEF-f_ring02L">>, <<"ring_03_l", "DEF-f_ring03L">>,
    <<"pinky_01_l", "DEF-f_pinky01L">>, <<"pinky_02_l", "DEF-f_pinky02L">>,
    <<"pinky_03_l", "DEF-f_pinky03L">>, <<"thumb_01_r", "DEF-thumb01R">>,
    <<"thumb_02_r", "DEF-thumb02R">>, <<"thumb_03_r", "DEF-thumb03R">>,
    <<"index_01_r", "DEF-f_index01R">>, <<"index_02_r", "DEF-f_index02R">>,
    <<"index_03_r", "DEF-f_index03R">>, <<"middle_01_r", "DEF-f_middle01R">>,
    <<"middle_02_r", "DEF-f_middle02R">>, <<"middle_03_r", "DEF-f_middle03R">>,
    <<"ring_01_r", "DEF-f_ring01R">>, <<"ring_02_r", "DEF-f_ring02R">>,
    <<"ring_03_r", "DEF-f_ring03R">>, <<"pinky_01_r", "DEF-f_pinky01R">>,
    <<"pinky_02_r", "DEF-f_pinky02R">>, <<"pinky_03_r", "DEF-f_pinky03R">>,
    <<"root", "root">>
}

\* a table in which a v1 name is itself remapped
BONE_MAP_Chained ==
    [v2 \in {p[1] : p \in BonePairs} \cup {"DEF-hips"} |->
        IF v2 = "DEF-hips" THEN "root" ELSE (CHOOSE p \in BonePairs : p[1] = v2)[2]]

BONE_MAP == [v2 \in {p[1] : p \in BonePairs} |-> (CHOOSE p \in BonePairs : p[1] = v2)[2]]

NoName == "<None>"      \* node.get('name') of a node without a name
NoNode == -1            \* target.get('node') of a channel without a target node

(* A document: nodes is the sequence of node names, an animation is a name  *)
(* and the sequence of its channels' target node indices (counted from 0),  *)
(* meshes stands for the rest of the document.                              *)

\* name_to_idx = {node.get('name'): i for i, node in enumerate(nodes)}:
\* a name that occurs twice keeps its last index
name_to_idx(nodes) ==
    [nm \in {nodes[i] : i \in 1..Len(nodes)} |->
        (CHOOSE i \in 1..Len(nodes) :
            nodes[i] = nm /\ \A j \in (i + 1)..Len(nodes) : nodes[j] # nm) - 1]

\* the index map filled in both directions
v2_to_v1_idx_Bidirectional(nodes) ==
    LET idx      == name_to_idx(nodes)
        resolved == {v2 \in DOMAIN BONE_MAP : v2 \in DOMAIN idx /\ BONE_MAP[v2] \in DOMAIN idx}
    IN  [k \in {idx[v2] : v2 \in resolved} \cup {idx[BONE_MAP[v2]] : v2 \in resolved} |->
            IF k \in {idx[v2] : v2 \in resolved}
            THEN idx[BONE_MAP[CHOOSE v2 \in resolved : idx[v2] = k]]
            ELSE idx[CHOOSE v2 \in resolved : idx[BONE_MAP[v2]] = k]]

\* the loop over BONE_MAP.items() that fills v2_to_v1_idx
v2_to_v1_idx(nodes) ==
    LET idx      == name_to_idx(nodes)
        resolved == {v2 \in DOMAIN BONE_MAP : v2 \in DOMAIN idx /\ BONE_MAP[v2] \in DOMAIN idx}
    IN  [k \in {idx[v2] : v2 \in resolved} |->
            idx[BONE_MAP[CHOOSE v2 \in resolved : idx[v2] = k]]]

\* the check that looks at the first channel only
UsesV2Bones_FirstOnly(channels, m) == channels # <<>> /\ channels[1] \in DOMAIN m

\* the first loop over the channels: does the animation use any v2 bone
UsesV2Bones(channels, m) == \E i \in 1..Len(channels) : channels[i] \in DOMAIN m

\* the second loop over the channels: target['node'] = new_idx
RemapChannels(channels, m) ==
    [i \in 1..Len(channels) |->
        IF channels[i] \in DOMAIN m THEN m[channels[i]] ELSE channels[i]]

RemapAnimation(anim, m) ==
    IF ~UsesV2Bones(anim.channels, m) THEN anim
    ELSE [anim EXCEPT !.channels = RemapChannels(anim.channels, m)]

\* remapped_count += 1 for every channel rewritten
RECURSIVE CountRemapped(_, _)
CountRemapped(animations, m) ==
    IF animations = <<>> THEN 0
    ELSE (IF UsesV2Bones(Head(animations).channels, m)
          THEN Cardinality({i \in 1..Len(Head(animations).channels) :
                               Head(animations).channels[i] \in DOMAIN m})
          ELSE 0)
         + CountRemapped(Tail(animations), m)

(* remap_animations: read the GLB, rewrite the channel targets, write the   *)
(* result to <stem>_remapped; the next run reads that output.  The document *)
(* and the payload are what read_glb returns for the file write_glb wrote.  *)
Remap ==
    /\ pc \in {"remap_start", "remapped"}
    /\ passes < MaxPasses
    /\ LET m == v2_to_v1_idx(json_data.nodes)
           out == [json_data EXCEPT
                      !.animations = [a \in 1..Len(json_data.animations) |->
                                         RemapAnimation(json_data.animations[a], m)]]
       IN  /\ mappings' = Cardinality(DOMAIN m)
           /\ remapped_count' = CountRemapped(json_data.animations, m)
           /\ json_data' = out
           /\ doc1' = IF passes = 0 THEN out ELSE doc1
    /\ B' = PadBin(B)
    /\ passes' = passes + 1
    /\ pc' = "remapped"
    /\ UNCHANGED <<doc0, D, file, foreign, result>>
    /\ UNCHANGED <<lebVars, wasmVars>>

----------------------------------------------------------------------------
(* Inputs of the remapper *)

NodeNames == {"pelvis", "DEF-hips", "root", NoName}

AnimsFor(k) ==
    LET chans == SeqsUpTo({NoNode} \cup (0..(k - 1)), MaxChans)
    IN  SeqsUpTo({[name |-> "Slide", channels |-> c] : c \in chans}, MaxAnims)

InitRemap ==
    /\ pc = "remap_start"
    /\ \E nodes \in SeqsUpTo(NodeNames, MaxNodes) :
         \E anims \in AnimsFor(Len(nodes)) :
            json_data = [nodes |-> nodes, animations |-> anims, meshes |-> 1]
    /\ doc0 = json_data
    /\ doc1 = NoDoc
    /\ remapped_count = 0 /\ mappings = 0 /\ passes = 0
    /\ B \in {<<7>>}
    /\ D = <<>> /\ file = <<>> /\ foreign = FALSE /\ result = NoResult
    /\ LebIdle /\ WasmIdle

NextRemap == Remap

SpecRemap == InitRemap /\ [][NextRemap]_vars

----------------------------------------------------------------------------
(* Inputs of the scanner *)

Preamble == <<0, 97, 115, 109, 1, 0, 0, 0>>      \* "\0asm" + version 1


\* A section of a well-formed module: id, custom name (id 0 only), remaining payload
NameChoices == {<<>>, <<110>>, Fill(97, LongNameLen)}
BodyChoices == {Fill(1, k) : k \in 0..MaxBody}
SectionChoices ==
    {[id |-> i, name |-> <<>>, body |-> b] : i \in {1, 10, 13}, b \in BodyChoices}
    \cup {[id |-> 0, name |-> nm, body |-> b] : nm \in NameChoices, b \in BodyChoices}

Payload(s) ==
    IF s.id = 0 THEN leb_encode(Len(s.name)) \o s.name \o s.body ELSE s.body

SectionBytes(s) == <<s.id>> \o leb_encode(Len(Payload(s))) \o Payload(s)

RECURSIVE Serialize(_)
Serialize(ss) ==
    IF ss = <<>> THEN <<>> ELSE SectionBytes(Head(ss)) \o Serialize(Tail(ss))

\* Bytes of an arbitrary input: ids, small sizes, continuation bytes
ByteChoices == {0, 1, 2, 128, 129, 255}

ArbitraryInputs ==
    {SubSeq(Preamble, 1, k) : k \in 0..7}
    \cup {Preamble \o t : t \in SeqsUpTo(ByteChoices, MaxTail)}

InitWasm ==
    /\ pc = "open"
    /\ \/ /\ secs \in SeqsUpTo(SectionChoices, MaxSecs)
          /\ data = Preamble \o Serialize(secs)
          /\ wf = TRUE
       \/ /\ data \in ArbitraryInputs
          /\ secs = <<>>
          /\ wf = FALSE
    /\ pos = 0 /\ sid = -1 /\ size = 0 /\ payloadStart = 0 /\ sections = EmptyMap
    /\ LebIdle /\ GlbIdle /\ RemapIdle

NextWasm == Open \/ ScanSection \/ ScanCustom \/ ScanFail \/ ScanEnd

SpecWasm == InitWasm /\ [][NextWasm]_vars

\* The interpreter runs the script to its end: no step is postponed forever
FairWasm == SpecWasm /\ WF_vars(NextWasm)

----------------------------------------------------------------------------
(* LEB128 reader against the reference encoding *)

LebInputs ==
    (0..MaxN) \cup {127, 128, 16383, 16384, 2097151, 2097152,
                    268435455, 268435456, 2147483647}

Trailers == {<<>>, <<0>>, <<128>>, <<255, 1>>}

LebEncode ==
    /\ pc = "leb_start"
    /\ \E t \in Trailers : buf' = leb_encode(n) \o t
    /\ pc' = "leb_encoded"
    /\ UNCHANGED <<n, leb>>
    /\ UNCHANGED <<wasmVars, glbVars, remapVars>>

LebDecode ==
    /\ pc = "leb_encoded"
    /\ leb' = read_leb128(buf, 0)
    /\ pc' = "leb_done"
    /\ UNCHANGED <<n, buf>>
    /\ UNCHANGED <<wasmVars, glbVars, remapVars>>

InitLeb ==
    /\ pc = "leb_start"
    /\ n \in LebInputs
    /\ buf = <<>> /\ leb = NoLeb
    /\ WasmIdle /\ GlbIdle /\ RemapIdle

NextLeb == LebEncode \/ LebDecode

SpecLeb == InitLeb /\ [][NextLeb]_vars

----------------------------------------------------------------------------
(* Inputs of the GLB codec *)

ElemChoices == {0, 7, 12}
BinBytes    == {0, 7}
Docs        == SeqsUpTo(ElemChoices, MaxDoc)
Payloads    == SeqsUpTo(BinBytes, MaxBin)

\* A GLB file that comes from elsewhere: any magic and version, possibly cut short
ForeignMagics   == {MAGIC, <<103, 108, 84, 88>>}
ForeignVersions == {1, 2, 3}
CutChoices      == {3, 14, 22}

ForeignGlb(magic, version, doc, bin) == magic \o pack_u32(version) \o GlbBody(doc, bin)

InitGlb ==
    /\ D \in Docs
    /\ B \in Payloads
    /\ result = NoResult
    /\ \/ /\ pc = "glb_start"
          /\ file = <<>>
          /\ foreign = FALSE
       \/ /\ pc = "glb_written"
          /\ foreign = TRUE
          /\ \E m \in ForeignMagics, v \in ForeignVersions :
                \/ file = ForeignGlb(m, v, D, B)
                \/ \E c \in CutChoices : file = SubSeq(ForeignGlb(m, v, D, B), 1, c)
    /\ LebIdle /\ WasmIdle /\ RemapIdle

NextGlb == WriteGlb \/ ReadGlb

SpecGlb == InitGlb /\ [][NextGlb]_vars

----------------------------------------------------------------------------
(* Claims about the GLB codec *)

ZeroPadded(b) == b \o Fill(0, (4 - (Len(b) % 4)) % 4)
RoundUp4(k)   == k + ((4 - (k % 4)) % 4)

\* C1 as stated: reading the file written for (D, B) returns exactly (D, B);
\* the pad bytes are not part of the returned payload.
C1_Original ==
    (pc \in {"glb_read", "glb_error"} /\ ~foreign) =>
        /\ result.status = "ok"
        /\ result.json = D
        /\ result.bin = B

\* C1 amended: reading the file written for (D, B) returns D and B followed
\* by the zero bytes that pad it to a multiple of 4; exactly (D, B) when
\* len(B) is a multiple of 4.
C1_RoundTripPadded ==
    (pc \in {"glb_read", "glb_error"} /\ ~foreign) =>
        /\ result.status = "ok"
        /\ result.json = D
        /\ result.bin = ZeroPadded(B)
        /\ (Len(B) % 4 = 0 => result.bin = B)

C1_Witness ==
    /\ pc = "glb_read" /\ ~foreign
    /\ Len(D) = 2 /\ Len(json_dumps(D)) % 4 # 0
    /\ Len(B) = 3 /\ Len(result.bin) = 4 /\ result.json = D

\* C2: the written file declares the padded JSON and BIN lengths, both
\* multiples of 4 and equal to the bytes written, always has a BIN chunk
\* header, and declares as total length 12 + 8 + JSON + 8 + BIN, its size.
C2_WriterInvariant ==
    (pc = "glb_written" /\ ~foreign) =>
        LET jlen == unpack_u32(SubSeq(file, 13, 16))
            blen == unpack_u32(SubSeq(file, 21 + jlen, 24 + jlen))
        IN  /\ SubSeq(file, 1, 4) = MAGIC
            /\ unpack_u32(SubSeq(file, 5, 8)) = 2
            /\ jlen % 4 = 0
            /\ jlen = RoundUp4(Len(json_dumps(D)))
            /\ SubSeq(file, 17, 20) = JSON_TAG
            /\ SubSeq(file, 21, 20 + jlen) = json_dumps(D) \o Fill(32, jlen - Len(json_dumps(D)))
            /\ Len(file) >= 28 + jlen
            /\ blen % 4 = 0
            /\ blen = RoundUp4(Len(B))
            /\ SubSeq(file, 25 + jlen, 28 + jlen) = BIN_TAG
            /\ SubSeq(file, 29 + jlen, Len(file)) = ZeroPadded(B)
            /\ unpack_u32(SubSeq(file, 9, 12)) = 12 + 8 + jlen + 8 + blen
            /\ Len(file) = 12 + 8 + jlen + 8 + blen

C2_Witness ==
    /\ pc = "glb_written" /\ ~foreign
    /\ B = <<>> /\ Len(json_dumps(D)) % 4 # 0
    /\ Len(file) = 28 + RoundUp4(Len(json_dumps(D)))
    /\ SubSeq(file, Len(file) - 3, Len(file)) = BIN_TAG

\* C6: read_glb returns a document only when the magic is glTF and the
\* version field is 2.
C6_HeaderValidated ==
    pc = "glb_read" =>
        /\ SubSeq(file, 1, 4) = MAGIC
        /\ unpack_u32(SubSeq(file, 5, 8)) = 2

----------------------------------------------------------------------------
(* Claims about the scanner *)

\* Header bytes of the sections of a well-formed input: id byte + size varint
RECURSIVE HeaderBytes(_)
HeaderBytes(ss) ==
    IF ss = <<>> THEN 0
    ELSE 1 + Len(leb_encode(Len(Payload(Head(ss))))) + HeaderBytes(Tail(ss))

ShortNames == \A i \in 1..Len(secs) : Len(leb_encode(Len(secs[i].name))) = 1

C4_CursorAfterCustom ==
    (wf /\ pc = "scan" /\ sid = 0) => pos = payloadStart + size

\* C5: decoding the standard encoding of n returns n and consumes exactly the
\* bytes of the encoding, stopping at the first byte whose high bit is clear.
C5_LebInverse ==
    pc = "leb_done" =>
        /\ leb.ok
        /\ leb.val = n
        /\ leb.pos = Len(leb_encode(n))
        /\ buf[leb.pos] < 128
        /\ \A i \in 1..(leb.pos - 1) : buf[i] >= 128

C5_Witness ==
    /\ pc = "leb_done" /\ n = 16384 /\ Len(buf) = 5 /\ leb.val = 16384 /\ leb.pos = 3

\* C10: every loop iteration moves the cursor strictly forward, and the scan
\* terminates on every input: it returns the mapping or aborts with a read error.
C10_Terminates ==
    /\ [][(pc = "scan" /\ pc' = "scan") => pos' > pos]_vars
    /\ <>(pc \in {"done", "error"})

\* a Custom section of declared size 0 on a malformed input: the relative seek
\* went backwards, to the byte after the size field
C10_Witness ==
    /\ pc = "scan" /\ ~wf /\ sid = 0 /\ size = 0 /\ pos = payloadStart /\ pos < Len(data)

----------------------------------------------------------------------------
(* Claims about the remapper *)

\* index of the last node named nm, -1 when there is none
LastIndex(nodes, nm) ==
    IF \E i \in 1..Len(nodes) : nodes[i] = nm
    THEN (CHOOSE i \in 1..Len(nodes) :
             nodes[i] = nm /\ \A j \in 1..Len(nodes) : nodes[j] = nm => j <= i) - 1
    ELSE -1

\* the resolved index-to-index map sends k to t: some pair of the bone table
\* names the node at k and the node at t, each the last node of its name
MapsTo(nodes, k, t) ==
    /\ k \in 0..(Len(nodes) - 1)
    /\ t \in 0..(Len(nodes) - 1)
    /\ <<nodes[k + 1], nodes[t + 1]>> \in BonePairs
    /\ LastIndex(nodes, nodes[k + 1]) = k
    /\ LastIndex(nodes, nodes[t + 1]) = t

IsKey(nodes, k) == \E t \in 0..(Len(nodes) - 1) : MapsTo(nodes, k, t)

ChannelsOf(doc) ==
    {ac \in (1..Len(doc.animations)) \X (1..(MaxChans + 1)) :
        ac[2] <= Len(doc.animations[ac[1]].channels)}

Target(doc, ac) == doc.animations[ac[1]].channels[ac[2]]

\* C7: one run rewrites exactly the channels whose target is a key of the
\* resolved index map, each to the mapped index; every other target and the
\* rest of the document are unchanged, and the count is the number rewritten.
C7_FrameEffect ==
    passes = 1 =>
        /\ json_data.nodes = doc0.nodes
        /\ json_data.meshes = doc0.meshes
        /\ Len(json_data.animations) = Len(doc0.animations)
        /\ \A a \in 1..Len(doc0.animations) :
              /\ json_data.animations[a].name = doc0.animations[a].name
              /\ Len(json_data.animations[a].channels) = Len(doc0.animations[a].channels)
        /\ \A ac \in ChannelsOf(doc0) :
              IF IsKey(doc0.nodes, Target(doc0, ac))
              THEN MapsTo(doc0.nodes, Target(doc0, ac), Target(json_data, ac))
              ELSE Target(json_data, ac) = Target(doc0, ac)
        /\ remapped_count =
              Cardinality({ac \in ChannelsOf(doc0) : IsKey(doc0.nodes, Target(doc0, ac))})

C7_Witness ==
    /\ passes = 1
    /\ doc0.nodes = <<"pelvis", "DEF-hips">>
    /\ doc0.animations = <<[name |-> "Slide", channels |-> <<0>>]>>
    /\ json_data.animations = <<[name |-> "Slide", channels |-> <<1>>]>>
    /\ remapped_count = 1

\* C8: the second run leaves every channel target as the first run left it.
C8_Idempotent ==
    passes = 2 => json_data.animations = doc1.animations

C8_Witness ==
    /\ passes = 2
    /\ doc1.animations # doc0.animations
    /\ json_data.animations = doc1.animations

\* C9 as stated: the second run finds no channel whose target is a key of the
\* index map and reports a count of 0, also when a channel targets `root`.
C9_Original ==
    passes = 2 =>
        /\ \A ac \in ChannelsOf(doc1) : ~IsKey(doc1.nodes, Target(doc1, ac))
        /\ remapped_count = 0

\* C9 amended: on the second run the only channels that match are those that
\* target the node named `root`, which maps to itself; the count is the number
\* of those channels, and 0 when there is none.
C9_SecondPassRootOnly ==
    passes = 2 =>
        LET r == LastIndex(doc1.nodes, "root")
        IN  /\ \A ac \in ChannelsOf(doc1) :
                  IsKey(doc1.nodes, Target(doc1, ac)) => (r >= 0 /\ Target(doc1, ac) = r)
            /\ remapped_count =
                  Cardinality({ac \in ChannelsOf(doc1) : r >= 0 /\ Target(doc1, ac) = r})

C9_Witness ==
    /\ passes = 2
    /\ doc1.animations # doc0.animations
    /\ remapped_count = 1
    /\ \E ac \in ChannelsOf(doc1) : Target(doc1, ac) = LastIndex(doc1.nodes, "root")

====
